---------------------------- MODULE Spec2Model ----------------------------
(***************************************************************************)
(* Model of the Web Push notification service:                             *)
(*   - routes/notify.rs : Notification -> NotifPush conversion, its JSON   *)
(*                        serialization, and the notify handler            *)
(*   - auth.rs          : the api_key middleware                           *)
(*                                                                         *)
(*   - conf.rs          : load_conf_file, the key file across startups     *)
(*   - routes/get_public_key.rs : the public key handler                   *)
(*   - windows_service.rs : service_main_inner and its control handler     *)
(*                                                                         *)
(* Six specifications share the module:                                    *)
(*   SpecConv   the conversion and serialization as a pure function over   *)
(*              bounded inputs                                             *)
(*   SpecAuth   the auth middleware over bounded headers and secrets       *)
(*   Spec       the notify handler, statement by statement, for the        *)
(*              requests in flight (MaxTasks at a time) as time passes     *)
(*   SpecConf   load_conf_file over a sequence of process startups         *)
(*   SpecKeys   notify and get_public_key requests running concurrently    *)
(*              over the shared key pair                                   *)
(*   SpecService  the Windows service: main thread, server thread and      *)
(*              control handler, with fair scheduling of the two threads   *)
(***************************************************************************)
EXTENDS Integers, Sequences, FiniteSets, TLC

VARIABLES
    \* ---- SpecConv: impl From<Notification> for NotifPush, then serde
    notification,   \* the Notification given to From
    notif_push,     \* Option<NotifPush>: the value From returned
    wire,           \* Option<Value>: json!({"notification": notif_push})
    cpc,            \* "input" | "converted" | "panicked" | "serialized"
    \* ---- SpecAuth: auth.rs
    api_key,        \* State(api_key): the configured shared secret (bytes)
    areq,           \* per request: the api_key header it carries
    apc,            \* per request: "recv" | "next" | "done"
    aresp,          \* per request: status answered, 0 while none
    next_ran,       \* per request: whether next.run(req) was called
    \* ---- Spec: the notify handler
    conf,           \* State(conf): Arc<KeysJson>
    clock,          \* Utc::now().timestamp_millis()
    pc,             \* per task: position in notify
    req,            \* per task: the NotificationRequest
    notif,          \* per task: req.payload.notification after line 219
    payload,        \* per task: Option<Value>, the serialized payload
    sig,            \* per task: whether a VAPID signature was built
    encrypted,      \* per task: whether builder.build() produced a message
    attempts,       \* per task: client.send calls made for the request
    resp,           \* per task: the response, status 0 while none
    outcome,        \* per task: how the push service answered client.send
    trail,          \* per task: the pipeline stages run, in order
    stamped_at,     \* per task: the clock value read at line 218
    stamps,         \* the two latest timestamps the handler filled in, oldest first
    signed_with,    \* per task: Option<String>, the private key the signature used
    \* ---- SpecConf: conf.rs, load_conf_file
    file,           \* Option<bytes>: conf.json next to the executable
    readable,       \* whether fs::read of an existing conf.json succeeds
    lpc,            \* "down" | "read" | "parse" | "generate" | "write" | "running" | "aborted"
    read_bytes,     \* Option<bytes>: what fs::read returned in this startup (b, line 20)
    gen_keys,       \* Option<KeysJson>: `keys`, the pair generated in this startup (line 37)
    loaded,         \* Option<ConfFile>: the value load_conf_file returned
    generated,      \* key pairs generated since the first startup
    startups,       \* process startups so far
    wrote,          \* this startup's fs::write: "none" | "ok" | "failed"
    persisted,      \* Option<KeysJson>: the first pair a startup wrote successfully
    \* ---- SpecKeys: routes/get_public_key.rs next to notify
    startup_conf,   \* the KeysJson handed to the router at startup
    kpc,            \* per get_public_key task: "idle" | "run" | "done"
    kresp,          \* per get_public_key task: Option<String>, the body answered
    \* ---- SpecService: windows_service.rs
    spc,            \* position of the main service thread in service_main_inner
    wpc,            \* position of the server thread
    statuses,       \* the states given to set_service_status, in order
    stop_worker,    \* messages waiting in the channel stop_tx -> stop_rx_worker
    stop_main,      \* messages waiting in the channel stop_tx_main -> stop_rx_main
    ready,          \* messages waiting in the channel ready_tx -> ready_rx
    stops,          \* Stop and Shutdown controls delivered to the handler
    others,         \* other controls delivered to the handler
    handled         \* Option<String>: what the handler returned for the latest control

convVars   == <<notification, notif_push, wire, cpc>>
authVars   == <<api_key, areq, apc, aresp, next_ran>>
notifyVars == <<conf, clock, pc, req, notif, payload, sig, encrypted,
                attempts, resp, outcome, trail, stamped_at, stamps, signed_with>>
confVars   == <<file, readable, lpc, read_bytes, gen_keys, loaded, generated, startups,
                wrote, persisted>>
pkVars     == <<startup_conf, kpc, kresp>>
svcVars    == <<spc, wpc, statuses, stop_worker, stop_main, ready, stops, others,
                handled>>
restVars   == <<confVars, pkVars, svcVars>>
vars       == <<convVars, authVars, notifyVars, restVars>>

---------------------------------------------------------------------------
\* Bounds of the model

MaxActions == 3     \* longest input `actions` list
MaxClock   == 3     \* largest clock value
MaxTasks   == 1     \* notify requests in flight at a time
MaxAuthReqs == 2    \* requests in the auth middleware at a time
MaxStartups == 3    \* process startups in a run
MaxControls == 2    \* service controls of each kind delivered to the handler

---------------------------------------------------------------------------
\* Option<T>: None is the empty set, Some(x) the singleton

None == {}

Some(x) == {x}

Unwrap(o) == CHOOSE x \in o : TRUE

---------------------------------------------------------------------------
\* Decimal formatting, as format!("{}") of an integer

Digit(d) ==
    CASE d = 0 -> "0" [] d = 1 -> "1" [] d = 2 -> "2" [] d = 3 -> "3"
      [] d = 4 -> "4" [] d = 5 -> "5" [] d = 6 -> "6" [] d = 7 -> "7"
      [] d = 8 -> "8" [] d = 9 -> "9"

RECURSIVE NatToStr(_)
NatToStr(n) == IF n < 10 THEN Digit(n) ELSE NatToStr(n \div 10) \o Digit(n % 10)

---------------------------------------------------------------------------
\* serde_json::Value.  Every value is a record of one shape; an object's
\* members are its (key, value) pairs, an array's are (index, value).

JNull == [kind |-> "null", scalar |-> "", members |-> {}]

JStr(s) == [kind |-> "string", scalar |-> s, members |-> {}]

JNum(n) == [kind |-> "number", scalar |-> NatToStr(n), members |-> {}]

JBool(b) == [kind |-> "bool", scalar |-> IF b THEN "true" ELSE "false", members |-> {}]

JObject(m) == [kind |-> "object", scalar |-> "", members |-> m]

JArr(s) ==
    [kind |-> "array", scalar |-> "",
     members |-> {<<NatToStr(i - 1), s[i]>> : i \in 1..Len(s)}]

HasKey(v, key) == \E m \in v.members : m[1] = key

Get(v, key) == (CHOOSE m \in v.members : m[1] = key)[2]

\* impl IndexMut<&str> for Value (value[key] = x): a null becomes an object,
\* an object gets the key inserted or replaced, anything else panics
IndexPanics(v) == v.kind \notin {"object", "null"}

IndexSet_Keep(v, key, x) ==
    JObject((IF v.kind = "object" THEN v.members ELSE {})
              \cup (IF HasKey(v, key) THEN {} ELSE {<<key, x>>}))

IndexSet(v, key, x) ==
    JObject({m \in (IF v.kind = "object" THEN v.members ELSE {}) : m[1] # key}
              \cup {<<key, x>>})

---------------------------------------------------------------------------
\* routes/notify.rs: the request types and their serde names

\* enum Operation, #[serde(rename_all="camelCase")]
Operations ==
    {"OpenWindow", "FocusLastFocusedOrOpen", "NavigateLastFocusedOrOpen", "SendRequest"}

OperationJson(op) ==
    CASE op = "OpenWindow"                -> "openWindow"
      [] op = "FocusLastFocusedOrOpen"    -> "focusLastFocusedOrOpen"
      [] op = "NavigateLastFocusedOrOpen" -> "navigateLastFocusedOrOpen"
      [] op = "SendRequest"               -> "sendRequest"

\* The Option fields of Notification that From moves over untouched
PlainOptFields ==
    {"badge", "body", "icon", "image", "lang", "renotify",
     "require_interaction", "silent", "tag", "timestamp", "vibrate"}

\* struct Notification, #[serde(rename_all="camelCase")]: the JSON name of a field
NotificationName(f) ==
    IF f = "require_interaction" THEN "requireInteraction" ELSE f

\* struct NotifPush, #[derive(Serialize)] with no rename: the JSON name of a field
NotifPushName(f) == f

---------------------------------------------------------------------------
\* impl From<Notification> for NotifPush

\* `count += 1` once per row: the value of count while row i is mapped
RECURSIVE CountAt_SkipDefault(_, _)
CountAt_SkipDefault(val, i) ==
    IF i = 0 THEN 0
    ELSE CountAt_SkipDefault(val, i - 1) + (IF val[i].title = "default" THEN 0 ELSE 1)

RECURSIVE CountAt(_, _)
CountAt(val, i) == IF i = 0 THEN 0 ELSE CountAt(val, i - 1) + 1

\* lines 128-132: the ActionPush a row maps to
ActionPushOf(row, count) ==
    LET ret == [action |-> "A" \o NatToStr(count), title |-> row.title]
    IN  IF ret.title = "default" THEN [ret EXCEPT !.action = "default"] ELSE ret

\* line 134: json!({"operation": row.operation, "url": row.url})
ActionJson(row) ==
    JObject({<<"operation", JStr(OperationJson(row.operation))>>,
             <<"url", JStr(row.url)>>})

\* lines 125-139: the collected Vec<ActionPush>
MappedActions(val) ==
    [i \in 1..Len(val) |-> ActionPushOf(val[i], CountAt(val, i))]

\* lines 120, 135: on_action_click after the first i rows were mapped
RECURSIVE OnActionClick(_, _)
OnActionClick(val, i) ==
    IF i = 0 THEN JObject({})
    ELSE IndexSet(OnActionClick(val, i - 1),
                  ActionPushOf(val[i], CountAt(val, i)).action,
                  ActionJson(val[i]))

\* lines 122, 141-151: the output `data`
DataOut(data, actions) ==
    IF actions = None \/ Len(Unwrap(actions)) = 0 THEN None
    ELSE IF data # None
         THEN Some(IndexSet(Unwrap(data), "onActionClick",
                            OnActionClick(Unwrap(actions), Len(Unwrap(actions)))))
         ELSE Some(JObject({<<"onActionClick",
                              OnActionClick(Unwrap(actions), Len(Unwrap(actions)))>>}))

\* line 144 panics when data is present and is not a JSON object
FromPanics(value) ==
    /\ value.actions # None
    /\ Len(Unwrap(value.actions)) > 0
    /\ value.data # None
    /\ IndexPanics(Unwrap(value.data))

\* lines 154-160: the output `actions`
IsVisible(row) == row.action # "default"

ActionsOut(actions) ==
    IF actions = None THEN None
    ELSE LET a == SelectSeq(MappedActions(Unwrap(actions)), IsVisible)
         IN  IF a = <<>> THEN None ELSE Some(a)

\* line 163
From(value) ==
    [title               |-> value.title,
     badge               |-> value.badge,
     body                |-> value.body,
     data                |-> DataOut(value.data, value.actions),
     icon                |-> value.icon,
     image               |-> value.image,
     lang                |-> value.lang,
     renotify            |-> value.renotify,
     require_interaction |-> value.require_interaction,
     silent              |-> value.silent,
     tag                 |-> value.tag,
     timestamp           |-> value.timestamp,
     vibrate             |-> value.vibrate,
     actions             |-> ActionsOut(value.actions)]

---------------------------------------------------------------------------
\* #[derive(Serialize)] of NotifPush and ActionPush, and line 222

JVal(v) == v

JVibrate(v) == JArr([i \in 1..Len(v) |-> JNum(v[i])])

SerActionPush(a) ==
    JObject({<<"action", JStr(a.action)>>, <<"title", JStr(a.title)>>})

JActions(a) == JArr([i \in 1..Len(a) |-> SerActionPush(a[i])])

\* #[serde(skip_serializing_if = "Option::is_none")]: a member for Some, none for None
OptMember(name, encoded) == {<<name, v>> : v \in encoded}

SerNotifPush(np) ==
    JObject({<<NotifPushName("title"), JStr(np.title)>>}
        \cup OptMember(NotifPushName("badge"), {JStr(x) : x \in np.badge})
        \cup OptMember(NotifPushName("body"), {JStr(x) : x \in np.body})
        \cup OptMember(NotifPushName("data"), {JVal(x) : x \in np.data})
        \cup OptMember(NotifPushName("icon"), {JStr(x) : x \in np.icon})
        \cup OptMember(NotifPushName("image"), {JStr(x) : x \in np.image})
        \cup OptMember(NotifPushName("lang"), {JStr(x) : x \in np.lang})
        \cup OptMember(NotifPushName("renotify"), {JBool(x) : x \in np.renotify})
        \cup OptMember(NotifPushName("require_interaction"),
                       {JBool(x) : x \in np.require_interaction})
        \cup OptMember(NotifPushName("silent"), {JBool(x) : x \in np.silent})
        \cup OptMember(NotifPushName("tag"), {JStr(x) : x \in np.tag})
        \cup OptMember(NotifPushName("timestamp"), {JNum(x) : x \in np.timestamp})
        \cup OptMember(NotifPushName("vibrate"), {JVibrate(x) : x \in np.vibrate})
        \cup OptMember(NotifPushName("actions"), {JActions(x) : x \in np.actions}))

\* line 222: json!({"notification": notif_push})
PayloadOf(np) == JObject({<<"notification", SerNotifPush(np)>>})

---------------------------------------------------------------------------
\* Bounded inputs of the conversion

ActionRows ==
    {[title |-> "A",       operation |-> "OpenWindow",                url |-> "u1"],
     [title |-> "default", operation |-> "SendRequest",               url |-> "u2"],
     [title |-> "B",       operation |-> "FocusLastFocusedOrOpen",    url |-> "u3"],
     [title |-> "default", operation |-> "NavigateLastFocusedOrOpen", url |-> "u4"]}

ActionLists == UNION {[1..k -> ActionRows] : k \in 0..MaxActions}

\* `data` is any JSON value; a JSON null deserializes to None
DataValues ==
    {JObject({}),
     JObject({<<"k", JNum(1)>>}),
     JObject({<<"k", JNum(1)>>, <<"onActionClick", JStr("old")>>}),
     JNum(5),
     JStr("s"),
     JArr(<<JNum(1)>>)}

\* Which plain optional fields a request supplies: none, any single one, all
PresentSets ==
    {{}} \cup {{f} : f \in PlainOptFields} \cup {PlainOptFields}

Opt(P, f, v) == IF f \in P THEN Some(v) ELSE None

MkNotification(P, data, actions) ==
    [title               |-> "hello",
     badge               |-> Opt(P, "badge", "badge.png"),
     body                |-> Opt(P, "body", "text"),
     data                |-> data,
     icon                |-> Opt(P, "icon", "icon.png"),
     image               |-> Opt(P, "image", "image.png"),
     lang                |-> Opt(P, "lang", "es"),
     renotify            |-> Opt(P, "renotify", TRUE),
     require_interaction |-> Opt(P, "require_interaction", TRUE),
     silent              |-> Opt(P, "silent", FALSE),
     tag                 |-> Opt(P, "tag", "t1"),
     timestamp           |-> Opt(P, "timestamp", 7),
     vibrate             |-> Opt(P, "vibrate", <<100, 50>>),
     actions             |-> actions]

ConvInputs ==
    {MkNotification(P, d, a) :
        P \in PresentSets,
        d \in {None} \cup {Some(v) : v \in DataValues},
        a \in {None} \cup {Some(l) : l \in ActionLists}}

---------------------------------------------------------------------------
\* SpecConv: From and the serialization applied to every bounded input

\* line 221: let notif_push: NotifPush = req.payload.notification.into()
Convert ==
    /\ cpc = "input"
    /\ ~FromPanics(notification)
    /\ notif_push' = Some(From(notification))
    /\ cpc' = "converted"
    /\ UNCHANGED <<notification, wire, authVars, notifyVars, restVars>>

\* line 221, when line 144 panics: From returns nothing
ConvertPanic ==
    /\ cpc = "input"
    /\ FromPanics(notification)
    /\ cpc' = "panicked"
    /\ UNCHANGED <<notification, notif_push, wire, authVars, notifyVars, restVars>>

\* lines 222-223
Serialize ==
    /\ cpc = "converted"
    /\ wire' = Some(PayloadOf(Unwrap(notif_push)))
    /\ cpc' = "serialized"
    /\ UNCHANGED <<notification, notif_push, authVars, notifyVars, restVars>>

ConvNext == Convert \/ ConvertPanic \/ Serialize

ConvInit ==
    /\ notification \in ConvInputs
    /\ notif_push = None
    /\ wire = None
    /\ cpc = "input"

\* The values the variables of a specification hold while another one runs
ConvIdle ==
    /\ notification = MkNotification({}, None, None)
    /\ notif_push = None
    /\ wire = None
    /\ cpc = "input"

---------------------------------------------------------------------------
Tasks == 1..MaxTasks

AuthReqs == 1..MaxAuthReqs

NoResp == [status |-> 0, msg |-> ""]

AuthIdle ==
    /\ api_key = <<>>
    /\ areq = [r \in AuthReqs |-> None]
    /\ apc = [r \in AuthReqs |-> "idle"]
    /\ aresp = [r \in AuthReqs |-> 0]
    /\ next_ran = [r \in AuthReqs |-> FALSE]

NotifyIdle ==
    /\ conf = [public_key |-> "", private_key |-> ""]
    /\ clock = 0
    /\ pc = [t \in Tasks |-> "idle"]
    /\ req = [t \in Tasks |-> None]
    /\ notif = [t \in Tasks |-> None]
    /\ payload = [t \in Tasks |-> None]
    /\ sig = [t \in Tasks |-> FALSE]
    /\ encrypted = [t \in Tasks |-> FALSE]
    /\ attempts = [t \in Tasks |-> 0]
    /\ resp = [t \in Tasks |-> NoResp]
    /\ outcome = [t \in Tasks |-> "none"]
    /\ trail = [t \in Tasks |-> <<>>]
    /\ stamped_at = [t \in Tasks |-> 0]
    /\ stamps = <<>>
    /\ signed_with = [t \in Tasks |-> None]

ConfIdle ==
    /\ file = None
    /\ readable = TRUE
    /\ lpc = "down"
    /\ read_bytes = None
    /\ gen_keys = None
    /\ loaded = None
    /\ generated = 0
    /\ startups = 0
    /\ wrote = "none"
    /\ persisted = None

KeysIdle ==
    /\ startup_conf = [public_key |-> "", private_key |-> ""]
    /\ kpc = [t \in Tasks |-> "idle"]
    /\ kresp = [t \in Tasks |-> None]

ServiceIdle ==
    /\ spc = "entry"
    /\ wpc = "unspawned"
    /\ statuses = <<>>
    /\ stop_worker = 0
    /\ stop_main = 0
    /\ ready = 0
    /\ stops = 0
    /\ others = 0
    /\ handled = None

RestIdle == ConfIdle /\ KeysIdle /\ ServiceIdle

InitConv == ConvInit /\ AuthIdle /\ NotifyIdle /\ RestIdle

SpecConv == InitConv /\ [][ConvNext]_vars

---------------------------------------------------------------------------
\* Properties of the conversion (checked under SpecConv)

Converted == cpc \in {"converted", "serialized"}

InputActions == IF notification.actions = None THEN <<>> ELSE Unwrap(notification.actions)

\* The key the claims give the action at 1-based position n
ExpectedKey(val, n) ==
    IF val[n].title = "default" THEN "default" ELSE "A" \o NatToStr(n)

ExpectedEntry(row) ==
    JObject({<<"operation", JStr(OperationJson(row.operation))>>,
             <<"url", JStr(row.url)>>})

IsButton(row) == row.title # "default"

\* The non-default actions in input order, each with the key of its position
ExpectedActions(val) ==
    LET tagged == [i \in 1..Len(val) |->
                      [action |-> ExpectedKey(val, i), title |-> val[i].title]]
    IN  SelectSeq(tagged, IsButton)

WireNotification == Get(Unwrap(wire), "notification")

\* C1: the output `actions` list is exactly the non-default input actions in
\* input order, the action at position n carrying the key "A{n}" (positions
\* of default actions are skipped, never reused), and the field is omitted,
\* in the value and on the wire, when no non-default action remains.
C1_ActionKeys ==
    Converted =>
        LET expected == ExpectedActions(InputActions)
        IN  /\ Unwrap(notif_push).actions =
                  (IF expected = <<>> THEN None ELSE Some(expected))
            /\ cpc = "serialized" =>
                  IF expected = <<>>
                  THEN ~HasKey(WireNotification, "actions")
                  ELSE /\ HasKey(WireNotification, "actions")
                       /\ Get(WireNotification, "actions") =
                            JArr([j \in 1..Len(expected) |->
                                    JObject({<<"action", JStr(expected[j].action)>>,
                                             <<"title", JStr(expected[j].title)>>})])

\* [A, default, B] gives A1 and A3
C1_Witness ==
    /\ cpc = "serialized"
    /\ Len(InputActions) = 3
    /\ InputActions[1].title = "A"
    /\ InputActions[2].title = "default"
    /\ InputActions[3].title = "B"
    /\ Unwrap(notif_push).actions =
          Some(<<[action |-> "A1", title |-> "A"], [action |-> "A3", title |-> "B"]>>)

OutClicks == Get(Unwrap(Unwrap(notif_push).data), "onActionClick")

HasClicks ==
    /\ Unwrap(notif_push).data # None
    /\ Unwrap(Unwrap(notif_push).data).kind = "object"
    /\ HasKey(Unwrap(Unwrap(notif_push).data), "onActionClick")
    /\ OutClicks.kind = "object"

\* C2 as stated: every input action, default ones included, has an entry
\* under its key holding exactly its own {operation, url}, and there are no
\* other keys.
C2_EveryActionOwnEntry ==
    (Converted /\ Len(InputActions) > 0) =>
        /\ HasClicks
        /\ \A n \in 1..Len(InputActions) :
              /\ HasKey(OutClicks, ExpectedKey(InputActions, n))
              /\ Get(OutClicks, ExpectedKey(InputActions, n)) =
                    ExpectedEntry(InputActions[n])
        /\ \A m \in OutClicks.members :
              \E n \in 1..Len(InputActions) : m[1] = ExpectedKey(InputActions, n)

\* The last input position that is assigned the key of position n
LastWithKey(val, n) ==
    CHOOSE i \in 1..Len(val) :
        /\ ExpectedKey(val, i) = ExpectedKey(val, n)
        /\ \A j \in 1..Len(val) : ExpectedKey(val, j) = ExpectedKey(val, n) => j <= i

\* C2 amended: onActionClick holds exactly the assigned keys, one entry per
\* key, and the entry under a key is the {operation, url} of the last input
\* action assigned that key (several default actions share "default").
C2_LastActionPerKey ==
    (Converted /\ Len(InputActions) > 0) =>
        /\ HasClicks
        /\ \A n \in 1..Len(InputActions) :
              /\ HasKey(OutClicks, ExpectedKey(InputActions, n))
              /\ Get(OutClicks, ExpectedKey(InputActions, n)) =
                    ExpectedEntry(InputActions[LastWithKey(InputActions, n)])
        /\ \A m \in OutClicks.members :
              \E n \in 1..Len(InputActions) : m[1] = ExpectedKey(InputActions, n)
        /\ Cardinality(OutClicks.members) =
              Cardinality({ExpectedKey(InputActions, n) : n \in 1..Len(InputActions)})

\* Two default actions and nothing else: no visible list, the last one kept
C2_Witness ==
    /\ cpc = "serialized"
    /\ Len(InputActions) = 2
    /\ InputActions[1] = [title |-> "default", operation |-> "SendRequest", url |-> "u2"]
    /\ InputActions[2] =
          [title |-> "default", operation |-> "NavigateLastFocusedOrOpen", url |-> "u4"]
    /\ Unwrap(notif_push).actions = None
    /\ HasClicks
    /\ OutClicks.members =
          {<<"default", JObject({<<"operation", JStr("navigateLastFocusedOrOpen")>>,
                                 <<"url", JStr("u4")>>})>>}

\* C3: with no actions (absent or an empty list) the output has no `actions`
\* and its `data` is the input `data`, present or absent.
C3_NoActionsDataUnchanged ==
    (Converted /\ Len(InputActions) = 0) =>
        /\ Unwrap(notif_push).actions = None
        /\ Unwrap(notif_push).data = notification.data

\* C4: with at least one action the conversion completes for any `data`;
\* an absent data becomes {onActionClick: map}, a present one keeps every
\* other key and has onActionClick set to the newly built map.
C4_ClicksMergedIntoAnyData ==
    (cpc # "input" /\ Len(InputActions) > 0) =>
        /\ cpc # "panicked"
        /\ LET built == OnActionClick(InputActions, Len(InputActions))
               out   == Unwrap(Unwrap(notif_push).data)
           IN  /\ Unwrap(notif_push).data # None
               /\ HasKey(out, "onActionClick")
               /\ Get(out, "onActionClick") = built
               /\ IF notification.data = None
                  THEN out = JObject({<<"onActionClick", built>>})
                  ELSE \A m \in Unwrap(notification.data).members :
                          m[1] # "onActionClick" => m \in out.members

\* The JSON value serde gives a plain field's value
EncField(f, v) ==
    CASE f \in {"title", "badge", "body", "icon", "image", "lang", "tag"} -> JStr(v)
      [] f \in {"renotify", "require_interaction", "silent"} -> JBool(v)
      [] f = "timestamp" -> JNum(v)
      [] f = "vibrate" -> JVibrate(v)

\* C5: every plain field is on the wire under the name and with the value it
\* had on input when present, and is not on the wire at all when absent.
C5_PlainFieldsSameNames ==
    cpc = "serialized" =>
        /\ HasKey(WireNotification, NotificationName("title"))
        /\ Get(WireNotification, NotificationName("title")) = JStr(notification.title)
        /\ \A f \in PlainOptFields :
              IF notification[f] = None
              THEN ~HasKey(WireNotification, NotificationName(f))
              ELSE /\ HasKey(WireNotification, NotificationName(f))
                   /\ Get(WireNotification, NotificationName(f)) =
                         EncField(f, Unwrap(notification[f]))

---------------------------------------------------------------------------
\* auth.rs: the api_key middleware.  Header values and the secret are byte
\* strings; a request carries the api_key header (Some) or not (None).

\* http::HeaderValue::to_str succeeds only on visible ASCII (and tab)
IsVisibleAscii(b) == (b >= 32 /\ b < 127) \/ b = 9

\* line 13: header.to_str().ok()
ToStr(h) == IF \A i \in 1..Len(h) : IsVisibleAscii(h[i]) THEN Some(h) ELSE None

\* lines 11-13: req.headers().get("api_key").and_then(|header| header.to_str().ok())
AuthHeader(header) == IF header = None THEN None ELSE ToStr(Unwrap(header))

\* lines 15-29: which way the middleware goes
AuthDecision(key, header) ==
    IF AuthHeader(header) = None THEN "missing"
    ELSE IF Unwrap(AuthHeader(header)) = key THEN "next"
    ELSE "mismatch"

\* "k1", "k2" and "ñ" in UTF-8
ApiKeys == {<<107, 49>>, <<107, 50>>, <<195, 177>>}

HeaderValues == ApiKeys \cup {<<107>>, <<107, 49, 50>>}

\* A request reaches the middleware
AuthArrive(r) ==
    /\ apc[r] = "idle"
    /\ \E h \in {None} \cup {Some(v) : v \in HeaderValues} :
          areq' = [areq EXCEPT ![r] = h]
    /\ apc' = [apc EXCEPT ![r] = "recv"]
    /\ UNCHANGED <<api_key, aresp, next_ran, convVars, notifyVars, restVars>>

\* lines 6-30, up to the call of next.run(req)
Auth(r) ==
    /\ apc[r] = "recv"
    /\ IF AuthDecision(api_key, areq[r]) = "next"
       THEN /\ next_ran' = [next_ran EXCEPT ![r] = TRUE]
            /\ apc' = [apc EXCEPT ![r] = "next"]
            /\ UNCHANGED aresp
       ELSE /\ aresp' = [aresp EXCEPT ![r] = 401]
            /\ apc' = [apc EXCEPT ![r] = "done"]
            /\ UNCHANGED next_ran
    /\ UNCHANGED <<api_key, areq, convVars, notifyVars, restVars>>

\* line 24: Ok(next.run(req).await), the downstream handler's response
NextReturns(r) ==
    /\ apc[r] = "next"
    /\ \E status \in {200, 400, 500} : aresp' = [aresp EXCEPT ![r] = status]
    /\ apc' = [apc EXCEPT ![r] = "done"]
    /\ UNCHANGED <<api_key, areq, next_ran, convVars, notifyVars, restVars>>

AuthNext == \E r \in AuthReqs : AuthArrive(r) \/ Auth(r) \/ NextReturns(r)

InitAuth ==
    /\ ConvIdle
    /\ NotifyIdle
    /\ RestIdle
    /\ api_key \in ApiKeys
    /\ areq = [r \in AuthReqs |-> None]
    /\ apc = [r \in AuthReqs |-> "idle"]
    /\ aresp = [r \in AuthReqs |-> 0]
    /\ next_ran = [r \in AuthReqs |-> FALSE]

SpecAuth == InitAuth /\ [][AuthNext]_vars

CarriesSecret(r) == areq[r] # None /\ Unwrap(areq[r]) = api_key

\* C7: a request is forwarded to the next handler if and only if it carries
\* the api_key header with a value equal to the configured secret; any other
\* request is answered 401 and the downstream handler is never run for it.
C7_ForwardIffSecret ==
    \A r \in AuthReqs :
        apc[r] \in {"next", "done"} =>
            /\ next_ran[r] <=> CarriesSecret(r)
            /\ ~CarriesSecret(r) => (apc[r] = "done" /\ aresp[r] = 401)

---------------------------------------------------------------------------
\* routes/notify.rs: the notify handler, one task per request

\* State(conf): the key pair read from conf.json; the stored private key may
\* or may not decode (line 227, VapidSignatureBuilder::from_base64)
KeysJsons ==
    {[public_key |-> "BPUB1", private_key |-> "priv1"],
     [public_key |-> "BPUB1", private_key |-> "not base64url"]}

PrivateKeyDecodes(k) == k = "priv1"

\* line 228, b.build(): the token is bound to the endpoint, which must be a URI
EndpointParses(endpoint) == endpoint = "https://push.example/sub1"

\* The subscriber keys the message can be encrypted to
UsableKeys(keys) == keys.p256dh = "BP256DH"

Subscriptions ==
    {[endpoint |-> "https://push.example/sub1",
      keys |-> [p256dh |-> "BP256DH", auth |-> "secret"]],
     [endpoint |-> "not a uri",
      keys |-> [p256dh |-> "BP256DH", auth |-> "secret"]],
     [endpoint |-> "https://push.example/sub1",
      keys |-> [p256dh |-> "???", auth |-> "secret"]]}

LongText == "text longer than the push payload limit"

\* The encoded payload exceeds what the encryption accepts
PayloadTooLarge(bytes) ==
    /\ HasKey(Get(bytes, "notification"), "body")
    /\ Get(Get(bytes, "notification"), "body") = JStr(LongText)

NotifyInputs ==
    {MkNotification({}, None, None),
     MkNotification({"timestamp"}, None, None),
     MkNotification({}, Some(JNum(5)), Some(<<[title |-> "A", operation |-> "OpenWindow", url |-> "u1"]>>)),
     [MkNotification({}, None, None) EXCEPT !.body = Some(LongText)]}

Requests ==
    {[subscription |-> s, payload |-> [notification |-> n]] :
        s \in Subscriptions, n \in NotifyInputs}

\* The window kept of the timestamps filled in
LastTwo(s) == IF Len(s) > 2 THEN Tail(s) ELSE s

\* line 218: Utc::now().timestamp_millis()
Now_Seconds == clock \div 1000

Now == clock

\* lines 227-239: how the signature step ends
SignOutcome_Ignore(keys, sub) == "ok"

SignOutcome(keys, sub) ==
    IF ~PrivateKeyDecodes(keys.private_key) THEN "VAPID PEM parse error"
    ELSE IF ~EndpointParses(sub.endpoint) THEN "VAPID signature error"
    ELSE "ok"

\* line 249, builder.build(): Err for unusable keys or an oversized payload
BuildFails(sub, bytes) == ~UsableKeys(sub.keys) \/ PayloadTooLarge(bytes)

\* lines 249-258: the position after client.send returned
AfterSend_Retry(result) == IF result = "ok" THEN "done" ELSE "send"

AfterSend(result) == "done"

\* lines 250-257: the response for the result of client.send
SendResponse(result) ==
    IF result = "ok"
    THEN [status |-> 200, msg |-> "Push sent successfully"]
    ELSE [status |-> 500, msg |-> "Failed to send push"]

SendResults == {"ok", "rejected", "unreachable"}

taskVars == <<req, notif, payload, sig, encrypted, attempts, resp, outcome,
              trail, stamped_at, signed_with>>

\* The Json extractor hands a request to notify (lines 203-206)
Receive(t) ==
    /\ pc[t] = "idle"
    /\ \E r \in Requests :
          /\ req' = [req EXCEPT ![t] = Some(r)]
          /\ notif' = [notif EXCEPT ![t] = Some(r.payload.notification)]
    /\ pc' = [pc EXCEPT ![t] = "stamp"]
    /\ UNCHANGED <<conf, clock, signed_with, payload, sig, encrypted, attempts, resp, outcome,
                   trail, stamped_at, stamps, convVars, authVars, restVars>>

\* lines 209-219: the timestamp is filled in when the request has none
Stamp(t) ==
    /\ pc[t] = "stamp"
    /\ IF Unwrap(notif[t]).timestamp = None
       THEN /\ notif' = [notif EXCEPT ![t] = Some([Unwrap(@) EXCEPT !.timestamp = Some(Now)])]
            /\ stamps' = LastTwo(Append(stamps, Now))
       ELSE UNCHANGED <<notif, stamps>>
    /\ stamped_at' = [stamped_at EXCEPT ![t] = clock]
    /\ pc' = [pc EXCEPT ![t] = "payload"]
    /\ UNCHANGED <<conf, clock, signed_with, req, payload, sig, encrypted, attempts, resp, outcome,
                   trail, convVars, authVars, restVars>>

\* lines 221-223: convert and serialize; From may panic (line 144)
BuildPayload(t) ==
    /\ pc[t] = "payload"
    /\ IF FromPanics(Unwrap(notif[t]))
       THEN /\ pc' = [pc EXCEPT ![t] = "panicked"]
            /\ UNCHANGED <<payload, trail>>
       ELSE /\ payload' = [payload EXCEPT ![t] = Some(PayloadOf(From(Unwrap(notif[t]))))]
            /\ trail' = [trail EXCEPT ![t] = Append(@, "Serialize")]
            /\ pc' = [pc EXCEPT ![t] = "sign"]
    /\ UNCHANGED <<conf, clock, signed_with, req, notif, sig, encrypted, attempts, resp, outcome,
                   stamped_at, stamps, convVars, authVars, restVars>>

\* lines 226-239: the VAPID signature, or a 500 response
Sign(t) ==
    /\ pc[t] = "sign"
    /\ trail' = [trail EXCEPT ![t] = Append(@, "Sign")]
    /\ IF SignOutcome(conf, Unwrap(req[t]).subscription) = "ok"
       THEN /\ sig' = [sig EXCEPT ![t] = TRUE]
            /\ signed_with' = [signed_with EXCEPT ![t] = Some(conf.private_key)]
            /\ pc' = [pc EXCEPT ![t] = "encrypt"]
            /\ UNCHANGED resp
       ELSE /\ resp' = [resp EXCEPT ![t] =
                          [status |-> 500,
                           msg |-> SignOutcome(conf, Unwrap(req[t]).subscription)]]
            /\ pc' = [pc EXCEPT ![t] = "done"]
            /\ UNCHANGED <<sig, signed_with>>
    /\ UNCHANGED <<conf, clock, req, notif, payload, encrypted, attempts, outcome,
                   stamped_at, stamps, convVars, authVars, restVars>>

\* lines 242-249: the message is built and encrypted; build().unwrap()
Encrypt(t) ==
    /\ pc[t] = "encrypt"
    /\ trail' = [trail EXCEPT ![t] = Append(@, "Encrypt")]
    /\ IF BuildFails(Unwrap(req[t]).subscription, Unwrap(payload[t]))
       THEN /\ pc' = [pc EXCEPT ![t] = "panicked"]
            /\ UNCHANGED encrypted
       ELSE /\ encrypted' = [encrypted EXCEPT ![t] = TRUE]
            /\ pc' = [pc EXCEPT ![t] = "send"]
    /\ UNCHANGED <<conf, clock, signed_with, req, notif, payload, sig, attempts, resp, outcome,
                   stamped_at, stamps, convVars, authVars, restVars>>

\* lines 249-258: client.send(..).await and the response
Send(t) ==
    /\ pc[t] = "send"
    /\ trail' = [trail EXCEPT ![t] = Append(@, "Deliver")]
    /\ attempts' = [attempts EXCEPT ![t] = @ + 1]
    /\ \E result \in SendResults :
          /\ outcome' = [outcome EXCEPT ![t] = result]
          /\ resp' = [resp EXCEPT ![t] = SendResponse(result)]
          /\ pc' = [pc EXCEPT ![t] = AfterSend(result)]
    /\ UNCHANGED <<conf, clock, signed_with, req, notif, payload, sig, encrypted,
                   stamped_at, stamps, convVars, authVars, restVars>>

\* The request is over (answered, or its task unwound by the panic) and the
\* server takes the next one
Finish(t) ==
    /\ pc[t] \in {"done", "panicked"}
    /\ pc' = [pc EXCEPT ![t] = "idle"]
    /\ req' = [req EXCEPT ![t] = None]
    /\ notif' = [notif EXCEPT ![t] = None]
    /\ payload' = [payload EXCEPT ![t] = None]
    /\ sig' = [sig EXCEPT ![t] = FALSE]
    /\ encrypted' = [encrypted EXCEPT ![t] = FALSE]
    /\ attempts' = [attempts EXCEPT ![t] = 0]
    /\ resp' = [resp EXCEPT ![t] = NoResp]
    /\ outcome' = [outcome EXCEPT ![t] = "none"]
    /\ trail' = [trail EXCEPT ![t] = <<>>]
    /\ stamped_at' = [stamped_at EXCEPT ![t] = 0]
    /\ signed_with' = [signed_with EXCEPT ![t] = None]
    /\ UNCHANGED <<conf, clock, stamps, convVars, authVars, restVars>>

\* Real time passes
Tick ==
    /\ clock < MaxClock
    /\ clock' = clock + 1
    /\ UNCHANGED <<conf, pc, taskVars, stamps, convVars, authVars, restVars>>

Next ==
    \/ Tick
    \/ \E t \in Tasks :
          \/ Receive(t) \/ Stamp(t) \/ BuildPayload(t) \/ Sign(t)
          \/ Encrypt(t) \/ Send(t) \/ Finish(t)

Init ==
    /\ ConvIdle
    /\ AuthIdle
    /\ RestIdle
    /\ conf \in KeysJsons
    /\ clock = 0
    /\ pc = [t \in Tasks |-> "idle"]
    /\ req = [t \in Tasks |-> None]
    /\ notif = [t \in Tasks |-> None]
    /\ payload = [t \in Tasks |-> None]
    /\ sig = [t \in Tasks |-> FALSE]
    /\ encrypted = [t \in Tasks |-> FALSE]
    /\ attempts = [t \in Tasks |-> 0]
    /\ resp = [t \in Tasks |-> NoResp]
    /\ outcome = [t \in Tasks |-> "none"]
    /\ trail = [t \in Tasks |-> <<>>]
    /\ stamped_at = [t \in Tasks |-> 0]
    /\ stamps = <<>>
    /\ signed_with = [t \in Tasks |-> None]

Spec == Init /\ [][Next]_vars

---------------------------------------------------------------------------
\* Properties of the notify handler (checked under Spec)

Stamped(t) == pc[t] \notin {"idle", "stamp"}

ReqNotification(t) == Unwrap(req[t]).payload.notification

\* C6: a request without a timestamp is sent with the clock value read while
\* it was processed, a supplied timestamp is sent as it is, no other field of
\* the request's notification is filled in by the handler, and the
\* timestamps filled in for successive requests never decrease.
C6_TimestampDefault ==
    /\ \A t \in Tasks :
          Stamped(t) =>
              LET sent == IF ReqNotification(t).timestamp = None
                          THEN Some(stamped_at[t])
                          ELSE ReqNotification(t).timestamp
              IN  /\ Unwrap(notif[t]) = [ReqNotification(t) EXCEPT !.timestamp = sent]
                  /\ payload[t] # None =>
                        /\ HasKey(Get(Unwrap(payload[t]), "notification"), "timestamp")
                        /\ Get(Get(Unwrap(payload[t]), "notification"), "timestamp") =
                              JNum(Unwrap(sent))
                        /\ \A f \in PlainOptFields \ {"timestamp"} :
                              ReqNotification(t)[f] = None =>
                                 /\ ~HasKey(Get(Unwrap(payload[t]), "notification"), f)
                                 /\ ~HasKey(Get(Unwrap(payload[t]), "notification"),
                                            NotificationName(f))
    /\ Len(stamps) = 2 => stamps[1] <= stamps[2]
    /\ \A i \in 1..Len(stamps) : stamps[i] <= clock

\* Two successive requests without a timestamp, the later at a later clock
\* value, the later one delivered
C6_Witness ==
    /\ Len(stamps) = 2
    /\ stamps[1] < stamps[2]
    /\ \E t \in Tasks :
          /\ pc[t] = "done"
          /\ outcome[t] = "ok"
          /\ ReqNotification(t).timestamp = None
          /\ stamped_at[t] = stamps[2]
          /\ Get(Get(Unwrap(payload[t]), "notification"), "timestamp") = JNum(stamps[2])

Ran(t, stage) == \E i \in 1..Len(trail[t]) : trail[t][i] = stage

\* C8: when building the encrypted message fails, notify answers 500 instead
\* of crashing, and no delivery is attempted.
C8_EncryptFailureAnswered500 ==
    \A t \in Tasks :
        (Ran(t, "Encrypt") /\ BuildFails(Unwrap(req[t]).subscription, Unwrap(payload[t]))) =>
            /\ pc[t] = "done"
            /\ resp[t].status = 500
            /\ attempts[t] = 0

IsPrefix(s, full) ==
    /\ Len(s) <= Len(full)
    /\ \A i \in 1..Len(s) : s[i] = full[i]

SignFailed(t) ==
    /\ Ran(t, "Sign")
    /\ \/ ~PrivateKeyDecodes(conf.private_key)
       \/ ~EndpointParses(Unwrap(req[t]).subscription.endpoint)

SignFailureEndsRequest(t) ==
    SignFailed(t) =>
        /\ pc[t] = "done"
        /\ resp[t].status = 500
        /\ resp[t].msg \in {"VAPID PEM parse error", "VAPID signature error"}
        /\ ~Ran(t, "Encrypt")
        /\ ~Ran(t, "Deliver")
        /\ ~encrypted[t]
        /\ attempts[t] = 0

\* C9 as stated: the steps run in the order Sign, Serialize, Encrypt,
\* Deliver, and a failed Sign ends the request with a 500 before any later
\* step.
C9_SignSerializeEncryptDeliver ==
    \A t \in Tasks :
        /\ IsPrefix(trail[t], <<"Sign", "Serialize", "Encrypt", "Deliver">>)
        /\ SignFailureEndsRequest(t)
        /\ SignFailed(t) => ~Ran(t, "Serialize")

\* C9 amended: the steps run in the order Serialize, Sign, Encrypt, Deliver,
\* and a failed Sign ends the request with a 500 signature-error response
\* before Encrypt and Deliver: nothing is encrypted, nothing is delivered.
C9_SerializeSignEncryptDeliver ==
    \A t \in Tasks :
        /\ IsPrefix(trail[t], <<"Serialize", "Sign", "Encrypt", "Deliver">>)
        /\ SignFailureEndsRequest(t)

\* A request whose endpoint is no URI, answered 500 after Serialize and Sign
C9_Witness ==
    \E t \in Tasks :
        /\ SignFailed(t)
        /\ trail[t] = <<"Serialize", "Sign">>
        /\ resp[t] = [status |-> 500, msg |-> "VAPID signature error"]

\* C10: a request makes at most one delivery attempt, its response is 200
\* with the success message only for an attempt that succeeded and 500 for
\* one that failed, and the request then ends, leaving the server to take
\* the next one.
C10_SingleAttempt ==
    \A t \in Tasks :
        /\ attempts[t] <= 1
        /\ attempts[t] = 1 <=> outcome[t] # "none"
        /\ resp[t].status = 200 =>
              /\ resp[t].msg = "Push sent successfully"
              /\ outcome[t] = "ok"
        /\ outcome[t] = "ok" => resp[t].status = 200
        /\ outcome[t] \in {"rejected", "unreachable"} =>
              resp[t] = [status |-> 500, msg |-> "Failed to send push"]
        /\ attempts[t] = 1 => (pc[t] = "done" /\ ENABLED Finish(t))

\* An unreachable endpoint: one attempt, a 500
C10_Witness ==
    \E t \in Tasks :
        /\ outcome[t] = "unreachable"
        /\ attempts[t] = 1
        /\ resp[t].status = 500
        /\ pc[t] = "done"

---------------------------------------------------------------------------
\* conf.rs: the configuration file and load_conf_file

\* enum TraceLevel (lines 99-104), serialized by variant name
TraceLevels == {"DEBUG", "INFO", "TRACE"}

\* generate_vapid_keys (lines 118-146): the n-th pair the generator hands
\* out; every call yields a pair no earlier call yielded
PairOf(n) == [public_key |-> "BPUB" \o NatToStr(n), private_key |-> "priv" \o NatToStr(n)]

\* lines 39-52: the configuration built around freshly generated keys
DefaultConf(k) ==
    [openapi |-> [title |-> "Webpush Notificator",
                  description |-> "This sends notifications through webpush",
                  version |-> "0.0.0",
                  contact |-> {}],
     keys |-> k,
     server |-> [trace_level |-> "TRACE", accept_from |-> "0.0.0.0",
                 port |-> 1000, api_key |-> "ApiKey_ArchiSecreta"]]

\* #[derive(Serialize)] of KeysJson (lines 93-97): the fields keep their names
SerKeysJson(k) ==
    JObject({<<"public_key", JStr(k.public_key)>>,
             <<"private_key", JStr(k.private_key)>>})

\* line 54: serde_json::to_string(&conf)
SerConfFile(c) ==
    JObject({<<"openapi", JObject({<<"title", JStr(c.openapi.title)>>,
                                   <<"description", JStr(c.openapi.description)>>,
                                   <<"version", JStr(c.openapi.version)>>,
                                   <<"contact", JObject(c.openapi.contact)>>})>>,
             <<"keys", SerKeysJson(c.keys)>>,
             <<"server", JObject({<<"trace_level", JStr(c.server.trace_level)>>,
                                  <<"accept_from", JStr(c.server.accept_from)>>,
                                  <<"port", JNum(c.server.port)>>,
                                  <<"api_key", JStr(c.server.api_key)>>})>>})

\* Bytes that are not a JSON document, such as the head of an interrupted write
Truncated == [kind |-> "invalid", scalar |-> "{\"openapi\":{\"title\":", members |-> {}]

IsObjectAt(v, key) == HasKey(v, key) /\ Get(v, key).kind = "object"

IsStringAt(v, key) == HasKey(v, key) /\ Get(v, key).kind = "string"

\* The port numbers conf.json files of the model carry
PortSamples == {80, 1000}

\* Deserialize of u16: the number the decimal text denotes
ParseU16(v) == {n \in PortSamples : v.kind = "number" /\ NatToStr(n) = v.scalar}

\* #[derive(Deserialize)] of OpenApi, KeysJson and Server: every field is
\* required under its own name, unknown members are ignored
OpenApiParses(v) ==
    /\ IsStringAt(v, "title") /\ IsStringAt(v, "description")
    /\ IsStringAt(v, "version") /\ IsObjectAt(v, "contact")

KeysJsonParses(v) == IsStringAt(v, "public_key") /\ IsStringAt(v, "private_key")

ServerParses(v) ==
    /\ IsStringAt(v, "trace_level") /\ Get(v, "trace_level").scalar \in TraceLevels
    /\ IsStringAt(v, "accept_from")
    /\ HasKey(v, "port") /\ ParseU16(Get(v, "port")) # None
    /\ IsStringAt(v, "api_key")

\* line 22: serde_json::from_slice::<ConfFile>(&b), None for Err
ParseConfFile(b) ==
    IF /\ b.kind = "object"
       /\ IsObjectAt(b, "openapi") /\ OpenApiParses(Get(b, "openapi"))
       /\ IsObjectAt(b, "keys") /\ KeysJsonParses(Get(b, "keys"))
       /\ IsObjectAt(b, "server") /\ ServerParses(Get(b, "server"))
    THEN Some([openapi |-> [title |-> Get(Get(b, "openapi"), "title").scalar,
                            description |-> Get(Get(b, "openapi"), "description").scalar,
                            version |-> Get(Get(b, "openapi"), "version").scalar,
                            contact |-> Get(Get(b, "openapi"), "contact").members],
               keys |-> [public_key |-> Get(Get(b, "keys"), "public_key").scalar,
                         private_key |-> Get(Get(b, "keys"), "private_key").scalar],
               server |-> [trace_level |-> Get(Get(b, "server"), "trace_level").scalar,
                           accept_from |-> Get(Get(b, "server"), "accept_from").scalar,
                           port |-> Unwrap(ParseU16(Get(Get(b, "server"), "port"))),
                           api_key |-> Get(Get(b, "server"), "api_key").scalar]])
    ELSE None

\* A configuration an operator wrote by hand before the first startup
OperatorConf ==
    [DefaultConf(PairOf(0)) EXCEPT !.server.trace_level = "INFO", !.server.port = 80]

\* A document whose key pair is spelled publicKey / privateKey
CamelCaseKeysFile ==
    IndexSet(SerConfFile(OperatorConf), "keys",
             JObject({<<"publicKey", JStr("BPUB0")>>, <<"privateKey", JStr("priv0")>>}))

\* conf.json as the first startup may find it
InitialFiles ==
    {None, Some(SerConfFile(OperatorConf)), Some(CamelCaseKeysFile), Some(Truncated)}

\* lines 55-64: where load_conf_file goes after fs::write returned
AfterWrite_Ignore(result) == IF result \in {"ok", "failed"} THEN "running" ELSE "aborted"

AfterWrite(result) == IF result = "ok" THEN "running" ELSE "aborted"

\* What fs::write (create, truncate, write_all) can leave behind when it
\* fails: the file as it was, or created and cut short
FailedWriteLeaves(old) == {old, Some(Truncated)}

---------------------------------------------------------------------------
\* SpecConf: the process is started again and again; each startup runs
\* load_conf_file to its return or to its panic

otherThanConf == <<convVars, authVars, notifyVars, pkVars, svcVars>>

\* The process is started and reaches load_conf_file (line 11)
Start ==
    /\ lpc = "down"
    /\ startups < MaxStartups
    /\ startups' = startups + 1
    /\ lpc' = "read"
    /\ read_bytes' = None
    /\ gen_keys' = None
    /\ wrote' = "none"
    /\ UNCHANGED <<file, readable, loaded, generated, persisted, otherThanConf>>

\* line 19: match fs::read(&conf_path); Ok(b) for a file that exists and can
\* be read, Err(_) for every other case
ReadFile ==
    /\ lpc = "read"
    /\ IF file # None /\ readable
       THEN /\ read_bytes' = file
            /\ lpc' = "parse"
       ELSE /\ lpc' = "generate"
            /\ UNCHANGED read_bytes
    /\ UNCHANGED <<file, readable, gen_keys, loaded, generated, startups, wrote,
                   persisted, otherThanConf>>

\* lines 22-31: the bytes are parsed; Ok(k) is returned, Err(e) panics
Parse ==
    /\ lpc = "parse"
    /\ IF ParseConfFile(Unwrap(read_bytes)) # None
       THEN /\ loaded' = ParseConfFile(Unwrap(read_bytes))
            /\ lpc' = "running"
       ELSE /\ lpc' = "aborted"
            /\ UNCHANGED loaded
    /\ UNCHANGED <<file, readable, read_bytes, gen_keys, generated, startups, wrote,
                   persisted, otherThanConf>>

\* lines 33-54: a key pair is generated and the configuration built around it
Generate ==
    /\ lpc = "generate"
    /\ generated' = generated + 1
    /\ gen_keys' = Some(PairOf(generated + 1))
    /\ lpc' = "write"
    /\ UNCHANGED <<file, readable, read_bytes, loaded, startups, wrote, persisted,
                   otherThanConf>>

\* lines 55-64: fs::write(&conf_path, parsed); Ok returns conf, Err panics
Write ==
    /\ lpc = "write"
    /\ \E result \in {"ok", "failed"} :
          /\ wrote' = result
          /\ IF result = "ok"
             THEN /\ file' = Some(SerConfFile(DefaultConf(Unwrap(gen_keys))))
                  /\ persisted' = IF persisted = None THEN gen_keys ELSE persisted
             ELSE /\ file' \in FailedWriteLeaves(file)
                  /\ UNCHANGED persisted
          /\ lpc' = AfterWrite(result)
          /\ loaded' = IF AfterWrite(result) = "running"
                       THEN Some(DefaultConf(Unwrap(gen_keys)))
                       ELSE None
    /\ UNCHANGED <<readable, read_bytes, gen_keys, generated, startups, otherThanConf>>

\* The process ends: after its panic, or when the server is shut down
Exit ==
    /\ lpc \in {"running", "aborted"}
    /\ lpc' = "down"
    /\ loaded' = None
    /\ UNCHANGED <<file, readable, read_bytes, gen_keys, generated, startups, wrote,
                   persisted, otherThanConf>>

\* Between two startups conf.json becomes unreadable (its permissions, a lock
\* held by another program, a failing disk) or readable again; its content
\* stays what it is
SetReadable ==
    /\ lpc = "down"
    /\ file # None
    /\ readable' = ~readable
    /\ UNCHANGED <<file, lpc, read_bytes, gen_keys, loaded, generated, startups, wrote,
                   persisted, otherThanConf>>

NextConf == Start \/ ReadFile \/ Parse \/ Generate \/ Write \/ Exit \/ SetReadable

InitConf ==
    /\ ConvIdle
    /\ AuthIdle
    /\ NotifyIdle
    /\ KeysIdle
    /\ ServiceIdle
    /\ file \in InitialFiles
    /\ readable = TRUE
    /\ lpc = "down"
    /\ read_bytes = None
    /\ gen_keys = None
    /\ loaded = None
    /\ generated = 0
    /\ startups = 0
    /\ wrote = "none"
    /\ persisted = None

SpecConf == InitConf /\ [][NextConf]_vars

---------------------------------------------------------------------------
\* Properties of load_conf_file (checked under SpecConf)

\* C11: once a startup has persisted a key pair to conf.json, every later
\* startup loads that pair and neither generates another pair nor rewrites
\* the file, also when the file cannot be read: the pair persisted is the
\* latest pair generated, the file holds it, and a startup that returned
\* returned it.
C11_KeyPairGeneratedOnce ==
    persisted # None =>
        /\ PairOf(generated) = Unwrap(persisted)
        /\ file = Some(SerConfFile(DefaultConf(Unwrap(persisted))))
        /\ lpc = "running" => Unwrap(loaded).keys = Unwrap(persisted)

\* The startup under way, or the one that ended last, read a conf.json that
\* does not parse
ReadMalformed ==
    /\ read_bytes # None
    /\ lpc # "parse"
    /\ ParseConfFile(Unwrap(read_bytes)) = None

\* C12: load_conf_file returns an identity only when conf.json holds it: what
\* it returned is what the file parses to; a freshly generated pair is
\* returned only after its write succeeded; a failed write aborts the
\* startup; a malformed file aborts the startup with no pair generated and
\* the file left as it was read.
C12_ReturnedIdentityIsInFile ==
    /\ lpc = "running" =>
          /\ loaded # None
          /\ file # None
          /\ ParseConfFile(Unwrap(file)) = loaded
    /\ (lpc = "running" /\ gen_keys # None) =>
          /\ wrote = "ok"
          /\ Unwrap(loaded).keys = Unwrap(gen_keys)
    /\ wrote = "failed" => (lpc \in {"aborted", "down"} /\ loaded = None)
    /\ ReadMalformed =>
          /\ lpc \in {"aborted", "down"}
          /\ loaded = None
          /\ gen_keys = None
          /\ wrote = "none"
          /\ file = read_bytes

\* A startup generated a pair, wrote it and returned it; the file parses back
\* to the value returned
C12_Witness ==
    /\ lpc = "running"
    /\ wrote = "ok"
    /\ gen_keys = Some(PairOf(1))
    /\ Unwrap(loaded).keys = PairOf(1)
    /\ ParseConfFile(Unwrap(file)) = loaded

---------------------------------------------------------------------------
\* routes/get_public_key.rs next to routes/notify.rs: both handlers take
\* State<Arc<KeysJson>>, one task per request, any interleaving

\* lines 27-28: the body of GetPuKeyResponses::Ok
GetPuKeyBody_Private(c) == c.private_key

GetPuKeyBody(c) == c.public_key

otherThanKeys == <<convVars, authVars, notifyVars, confVars, svcVars>>

\* A get_public_key request arrives and its task is spawned (lines 24-26)
PkReceive(t) ==
    /\ kpc[t] = "idle"
    /\ kpc' = [kpc EXCEPT ![t] = "run"]
    /\ UNCHANGED <<startup_conf, kresp, otherThanKeys>>

\* lines 27-28: return GetPuKeyResponses::Ok(conf.public_key.clone())
GetPublicKey(t) ==
    /\ kpc[t] = "run"
    /\ kresp' = [kresp EXCEPT ![t] = Some(GetPuKeyBody(conf))]
    /\ kpc' = [kpc EXCEPT ![t] = "done"]
    /\ UNCHANGED <<startup_conf, otherThanKeys>>

\* The response is sent and the task ends
PkFinish(t) ==
    /\ kpc[t] = "done"
    /\ kpc' = [kpc EXCEPT ![t] = "idle"]
    /\ kresp' = [kresp EXCEPT ![t] = None]
    /\ UNCHANGED <<startup_conf, otherThanKeys>>

NextKeys ==
    \E t \in Tasks :
        \/ Receive(t) \/ Stamp(t) \/ BuildPayload(t) \/ Sign(t)
        \/ Encrypt(t) \/ Send(t) \/ Finish(t)
        \/ PkReceive(t) \/ GetPublicKey(t) \/ PkFinish(t)

\* The router is built at startup with one Arc<KeysJson>, the pair
\* load_conf_file returned, as the state of both routes
InitKeys ==
    /\ ConvIdle
    /\ AuthIdle
    /\ ConfIdle
    /\ ServiceIdle
    /\ startup_conf \in KeysJsons
    /\ conf = startup_conf
    /\ kpc = [t \in Tasks |-> "idle"]
    /\ kresp = [t \in Tasks |-> None]
    /\ clock = 0
    /\ pc = [t \in Tasks |-> "idle"]
    /\ req = [t \in Tasks |-> None]
    /\ notif = [t \in Tasks |-> None]
    /\ payload = [t \in Tasks |-> None]
    /\ sig = [t \in Tasks |-> FALSE]
    /\ encrypted = [t \in Tasks |-> FALSE]
    /\ attempts = [t \in Tasks |-> 0]
    /\ resp = [t \in Tasks |-> NoResp]
    /\ outcome = [t \in Tasks |-> "none"]
    /\ trail = [t \in Tasks |-> <<>>]
    /\ stamped_at = [t \in Tasks |-> 0]
    /\ stamps = <<>>
    /\ signed_with = [t \in Tasks |-> None]

SpecKeys == InitKeys /\ [][NextKeys]_vars

---------------------------------------------------------------------------
\* windows_service.rs: service_main_inner, its server thread and its control
\* handler.  The model starts when init_server has returned (line 35);
\* registering with the service control manager, reporting a status and
\* creating the Tokio runtime are taken to succeed.

\* enum ServiceControl: the controls the manager delivers
ServiceControls == {"Stop", "Shutdown", "Pause", "Interrogate"}

StopControls == {"Stop", "Shutdown"}

\* lines 44-51: the channels the handler sends () on
HandlerSends_WorkerOnly(control) ==
    IF control \in StopControls THEN {"stop_tx"} ELSE {}

HandlerSends(control) ==
    IF control \in StopControls THEN {"stop_tx", "stop_tx_main"} ELSE {}

\* lines 44-51: the value the handler returns
HandlerResult(control) ==
    IF control \in StopControls THEN "NoError" ELSE "NotImplemented"

\* mpsc::Sender::send: the message is queued while the receiver exists and
\* dropped with an Err, which the handler ignores, once it is gone
SendOn(queue, sends, receiver_alive) ==
    IF sends /\ receiver_alive THEN queue + 1 ELSE queue

\* stop_rx_worker lives until the blocking recv of line 84 has returned
WorkerReceiverAlive == wpc # "stopped"

\* stop_rx_main lives until service_main_inner returns
MainReceiverAlive == spc # "returned"

otherThanService == <<convVars, authVars, notifyVars, confVars, pkVars>>

\* lines 54-57: service_control_handler::register(.., handler)
Register ==
    /\ spc = "entry"
    /\ spc' = "registered"
    /\ UNCHANGED <<wpc, statuses, stop_worker, stop_main, ready, stops, others,
                   handled, otherThanService>>

\* lines 60-68: set_service_status(StartPending)
ReportStartPending ==
    /\ spc = "registered"
    /\ statuses' = Append(statuses, "StartPending")
    /\ spc' = "start_pending"
    /\ UNCHANGED <<wpc, stop_worker, stop_main, ready, stops, others, handled,
                   otherThanService>>

\* line 72: std::thread::spawn
SpawnServerThread ==
    /\ spc = "start_pending"
    /\ wpc' = "spawned"
    /\ spc' = "wait_ready"
    /\ UNCHANGED <<statuses, stop_worker, stop_main, ready, stops, others, handled,
                   otherThanService>>

\* line 93: let _ = ready_rx.recv()
RecvReady ==
    /\ spc = "wait_ready"
    /\ ready > 0
    /\ ready' = ready - 1
    /\ spc' = "ready"
    /\ UNCHANGED <<wpc, statuses, stop_worker, stop_main, stops, others, handled,
                   otherThanService>>

\* lines 95-103: set_service_status(Running)
ReportRunning ==
    /\ spc = "ready"
    /\ statuses' = Append(statuses, "Running")
    /\ spc' = "wait_stop"
    /\ UNCHANGED <<wpc, stop_worker, stop_main, ready, stops, others, handled,
                   otherThanService>>

\* line 107: let _ = stop_rx_main.recv()
RecvStopMain ==
    /\ spc = "wait_stop"
    /\ stop_main > 0
    /\ stop_main' = stop_main - 1
    /\ spc' = "stopping"
    /\ UNCHANGED <<wpc, statuses, stop_worker, ready, stops, others, handled,
                   otherThanService>>

\* lines 110-121: set_service_status(Stopped), then Ok(())
ReportStopped ==
    /\ spc = "stopping"
    /\ statuses' = Append(statuses, "Stopped")
    /\ spc' = "returned"
    /\ UNCHANGED <<wpc, stop_worker, stop_main, ready, stops, others, handled,
                   otherThanService>>

\* line 73, the first statement of the server thread: ready_tx.send(())
SendReady ==
    /\ wpc = "spawned"
    /\ ready' = ready + 1
    /\ wpc' = "starting"
    /\ UNCHANGED <<spc, statuses, stop_worker, stop_main, stops, others, handled,
                   otherThanService>>

\* lines 75-78: Runtime::new(), block_on, and the first poll of select!:
\* run_server is being served
StartRuntime ==
    /\ wpc = "starting"
    /\ wpc' = "serving"
    /\ UNCHANGED <<spc, statuses, stop_worker, stop_main, ready, stops, others,
                   handled, otherThanService>>

\* lines 78-82: run_server returned (it could not bind its address, or
\* serving failed); the thread then waits for the blocking recv to end
ServerExits ==
    /\ wpc = "serving"
    /\ wpc' = "exited"
    /\ UNCHANGED <<spc, statuses, stop_worker, stop_main, ready, stops, others,
                   handled, otherThanService>>

\* lines 84-87: stop_rx_worker.recv() returned; select! drops run_server
RecvStopWorker ==
    /\ wpc \in {"serving", "exited"}
    /\ stop_worker > 0
    /\ stop_worker' = stop_worker - 1
    /\ wpc' = "stopped"
    /\ UNCHANGED <<spc, statuses, stop_main, ready, stops, others, handled,
                   otherThanService>>

\* lines 42-52: the manager calls the registered handler with a control
Handler(control) ==
    /\ spc # "entry"
    /\ IF control \in StopControls
       THEN stops < MaxControls /\ stops' = stops + 1 /\ UNCHANGED others
       ELSE others < MaxControls /\ others' = others + 1 /\ UNCHANGED stops
    /\ stop_worker' = SendOn(stop_worker, "stop_tx" \in HandlerSends(control),
                             WorkerReceiverAlive)
    /\ stop_main' = SendOn(stop_main, "stop_tx_main" \in HandlerSends(control),
                           MainReceiverAlive)
    /\ handled' = Some(HandlerResult(control))
    /\ UNCHANGED <<spc, wpc, statuses, ready, otherThanService>>

MainThread ==
    \/ Register \/ ReportStartPending \/ SpawnServerThread \/ RecvReady
    \/ ReportRunning \/ RecvStopMain \/ ReportStopped

ServerThread == SendReady \/ StartRuntime \/ RecvStopWorker

NextService ==
    \/ Register \/ ReportStartPending \/ SpawnServerThread \/ RecvReady
    \/ ReportRunning \/ RecvStopMain \/ ReportStopped
    \/ SendReady \/ StartRuntime \/ ServerExits \/ RecvStopWorker
    \/ \E control \in ServiceControls : Handler(control)

InitService ==
    /\ ConvIdle
    /\ AuthIdle
    /\ NotifyIdle
    /\ ConfIdle
    /\ KeysIdle
    /\ spc = "entry"
    /\ wpc = "unspawned"
    /\ statuses = <<>>
    /\ stop_worker = 0
    /\ stop_main = 0
    /\ ready = 0
    /\ stops = 0
    /\ others = 0
    /\ handled = None

\* Both threads are scheduled by the operating system: a thread that can
\* take its next step eventually takes it.  Nothing obliges the manager to
\* deliver a control or the server to fail.
SpecService ==
    /\ InitService
    /\ [][NextService]_vars
    /\ WF_vars(MainThread)
    /\ WF_vars(ServerThread)

---------------------------------------------------------------------------
\* Properties of the Windows service (checked under SpecService)

\* The status the service control manager saw last
CurrentStatus == IF statuses = <<>> THEN "none" ELSE statuses[Len(statuses)]

Reported(status) == \E i \in 1..Len(statuses) : statuses[i] = status

\* The server thread has run its ready_tx.send(())
SignalledReady == wpc \notin {"unspawned", "spawned"}

\* C14: the statuses reported are StartPending, Running, Stopped in that
\* order with no repetition; Running only after the server thread signalled
\* that it started; Stopped only after a Stop or Shutdown control; and while
\* the status is Running the HTTP server is being served.
C14_StatusSequenceAndServing ==
    /\ IsPrefix(statuses, <<"StartPending", "Running", "Stopped">>)
    /\ Reported("Running") => SignalledReady
    /\ Reported("Stopped") => stops > 0
    /\ CurrentStatus = "Running" => wpc = "serving"

StopDelivered == stops > 0

ServiceStopped ==
    /\ wpc = "stopped"
    /\ CurrentStatus = "Stopped"
    /\ spc = "returned"

\* What a control other than Stop and Shutdown must leave as it is
serviceState == <<spc, wpc, statuses, stop_worker, stop_main, ready>>

===========================================================================
